---- MODULE Spec2Model ----
(***************************************************************************)
(* Model of the APM32F4 hash accelerator driver (hashProcessData,          *)
(* md5Update / sha1Update, md5ProcessBlock / sha1ProcessBlock) and of the  *)
(* MSP432E4 accelerator initialisation (msp432e4CryptoInit).               *)
(*                                                                         *)
(* Several sessions (hash contexts) run concurrently and share one HASH    *)
(* peripheral that is guarded by the crypto mutex.  Every session hashes   *)
(* a stream of bytes, handed to the update function in chunks of           *)
(* arbitrary lengths.                                                      *)
(***************************************************************************)
EXTENDS Integers, Sequences, FiniteSets, TLC

\* ------------------------------------------------------------------ bounds

\* Number of update calls the chunking session may issue.
MaxCalls == 2

\* Number of stream bytes a session may pass to update in total.
MaxTotal == 129

\* The lengths an update call of the chunking session may be given.
ChunkLens == {0, 1, 63, 64, 128}

\* The lengths the single update call of the one-call session may be given.
WholeLens == {1, 64, 129}

\* Number of polls of the peripheral-ready flag that may fail during init.
MaxReadyPolls == 3

\* Number of times the accelerator init may be called.
MaxInitCalls == 3

\* ------------------------------------------------------- program constants

\* Size of a block of the hash engine, in bytes.
BlockSize == 64

\* Number of 32-bit words of a block.
BlockWords == 16

\* Abstract width of a digest word (the compression function is opaque).
WordMod == 251

\* Session 1 passes its message in one update call, session 2 in chunks.
Sessions == {1, 2}

CallsAllowed(s) == IF s = 1 THEN 1 ELSE MaxCalls

LensAllowed(s) == IF s = 1 THEN WholeLens ELSE ChunkLens

Algos == {"MD5", "SHA1"}

\* HASH_CTRL_ALGSEL_MD5 / HASH_CTRL_ALGSEL_SHA1
AlgSel(a) == IF a = "MD5" THEN "ALGSEL_MD5" ELSE "ALGSEL_SHA1"

\* MD5_DIGEST_SIZE / 4 and SHA1_DIGEST_SIZE / 4
HLen(a) == IF a = "MD5" THEN 4 ELSE 5

\* Initial hash value of a fresh context.
InitialH(a) == IF a = "MD5" THEN <<1, 2, 3, 4>> ELSE <<5, 6, 7, 8, 9>>

\* Content of a buffer byte that was never written.
Uninit == -1

\* The initial configurations: algorithm and stream of each session.
Configs ==
  { [algo |-> <<"MD5", "MD5">>,   sid |-> <<0, 0>>],
    [algo |-> <<"SHA1", "SHA1">>, sid |-> <<0, 0>>],
    [algo |-> <<"SHA1", "MD5">>,  sid |-> <<0, 1>>] }

\* ------------------------------------------------------------------ helpers

MIN(a, b) == IF a < b THEN a ELSE b

\* Byte i of stream sid: the message a session hashes.
StreamByte(sid, i) == (7 * i + 3 * (i \div 64) + 13 * sid + 1) % 256

\* The bytes [from, from + len) of stream sid.
StreamBytes(sid, from, len) == [k \in 1..len |-> StreamByte(sid, from + k - 1)]

\* A pointer is either into the caller's data or into the context's buffer.
DataPtr(off) == [src |-> "data", off |-> off]
BufferPtr(off) == [src |-> "buffer", off |-> off]

\* ------------------------------------------------------------------- state

VARIABLES
  clockEnabled, \* RCM: the HASH peripheral clock is enabled
  mutex,        \* apm32f4xxCryptoMutex: 0 when free, else the owning session
  HASH,         \* the registers of the HASH peripheral
  algo,         \* algo[s]: the algorithm of session s
  sid,          \* sid[s]: the stream session s hashes
  context,      \* context[s]: Md5Context / Sha1Context (h, buffer, size, totalSize)
  pc,           \* pc[s]: position of session s in its code
  data,         \* data[s]: md5Update's data pointer, an offset into the stream
  length,       \* length[s]: md5Update's remaining length
  n,            \* n[s]: md5Update's local n
  hp,           \* hp[s]: the frame of hashProcessData (algo, data, length, hLen, i, ret)
  stage,        \* stage[s]: "open", "finalizing" or "finalized"
  calls,        \* history: the lengths session s has passed to update, in order
  sumLen,       \* history: sum of the lengths passed to update by session s
  fed,          \* history: the block bytes session s has written to HASH->INDATA
  digestLen,    \* history: the message length when session s was finalized, else -1
  hIn,          \* history: h, data and length at the entry of the current hashProcessData,
                \* and the accesses to the HASH peripheral it has made, in order
  invoked,      \* history: size and length at the entry of the current call of update or
                \* process-block, and the calls of hashProcessData it has made
  initPc,       \* msp432e4CryptoInit: position in the code
  error,        \* msp432e4CryptoInit: local error
  initRet,      \* msp432e4CryptoInit: last returned value
  mutexOk,      \* osCreateMutex: result of the current call
  msp432e4CryptoMutex, \* the mutex object has been created
  ccm,          \* CCM0 peripheral: enabled, number of resets, polls until ready
  initCalls,    \* number of calls of msp432e4CryptoInit
  initOps       \* history: what the current call did to the CCM peripheral

hashVars == <<clockEnabled, mutex, HASH, algo, sid, context, pc, data, length, n,
              hp, stage, calls, sumLen, fed, digestLen, hIn, invoked>>

initVars == <<initPc, error, initRet, mutexOk, msp432e4CryptoMutex, ccm, initCalls,
              initOps>>

vars == <<hashVars, initVars>>

\* ------------------------------------------------------ the HASH peripheral

ZeroWord == <<0, 0, 0, 0>>

\* Indices of the context swap registers the driver uses: CTSWAP[6 + i] is the
\* initial-value bank, CTSWAP[14 + i] the current-value bank.
SeedBank == 6
CurBank == 14

\* The bytes of a sequence of words, in memory order.
WordsToBytes(ws) == [k \in 1..(4 * Len(ws)) |-> ws[((k - 1) \div 4) + 1][((k - 1) % 4) + 1]]

\* Order-sensitive digest of a block: every byte is weighted by its position
\* p in the block; a block is BlockWords words of four bytes.
ByteMix(bytes, p) == ((2 * p + 1) * (bytes[p] + 1)) % WordMod

WordMix(bytes, w) ==
  ByteMix(bytes, 4 * w - 3) + ByteMix(bytes, 4 * w - 2) + ByteMix(bytes, 4 * w - 1)
    + ByteMix(bytes, 4 * w)

BlockMix(bytes) ==
  ( WordMix(bytes, 1) + WordMix(bytes, 2) + WordMix(bytes, 3) + WordMix(bytes, 4)
  + WordMix(bytes, 5) + WordMix(bytes, 6) + WordMix(bytes, 7) + WordMix(bytes, 8)
  + WordMix(bytes, 9) + WordMix(bytes, 10) + WordMix(bytes, 11) + WordMix(bytes, 12)
  + WordMix(bytes, 13) + WordMix(bytes, 14) + WordMix(bytes, 15) + WordMix(bytes, 16)
  ) % WordMod

\* The compression function of the engine: an opaque deterministic function of
\* the selected algorithm, the state words and the block.
Compress(sel, h, bytes) ==
  LET m == BlockMix(bytes)
      k == IF sel = "ALGSEL_MD5" THEN 3 ELSE 5
  IN  [i \in 1..Len(h) |-> (k * h[i] + m + i) % WordMod]

\* Number of state words of the selected algorithm.
SelWords(sel) == IF sel = "ALGSEL_MD5" THEN 4 ELSE 5

\* Successive writes of the words ws to HASH->INDATA (at most one block of
\* them): the words enter the input FIFO; a word written when the FIFO holds
\* a whole block is the first word of the next block and starts the digest
\* computation of the block the FIFO holds.
WriteWords(H, ws) ==
  LET room == BlockWords - Len(H.FIFO)
  IN  IF Len(ws) <= room
        THEN [H EXCEPT !.FIFO = @ \o ws]
        ELSE [H EXCEPT !.BLK = WordsToBytes(H.FIFO \o SubSeq(ws, 1, room)),
                       !.FIFO = SubSeq(ws, room + 1, Len(ws)),
                       !.BUSY = TRUE]

\* A write of the word w to HASH->INDATA.
WriteINDATA(H, w) == WriteWords(H, <<w>>)

\* The engine completes the computation of a block: the first block after
\* INITCAL starts from the initial-value bank, the next ones from the current
\* bank; the result is left in the current bank and BUSY is cleared.
EngineDone ==
  /\ HASH.BUSY
  /\ LET w   == SelWords(HASH.ALGSEL)
         bnk == IF HASH.FRESH THEN SeedBank ELSE CurBank
         out == Compress(HASH.ALGSEL, [i \in 1..w |-> HASH.CTSWAP[bnk + i - 1]], HASH.BLK)
     IN  HASH' = [HASH EXCEPT
                    !.CTSWAP = [j \in DOMAIN @ |->
                                  IF j >= CurBank /\ j < CurBank + w
                                    THEN out[j - CurBank + 1] ELSE @[j]],
                    !.BUSY = FALSE, !.FRESH = FALSE, !.BLK = <<>>]
  /\ UNCHANGED <<clockEnabled, mutex, algo, sid, context, pc, data, length, n, hp,
                 stage, calls, sumLen, fed, hIn,
                 digestLen, invoked>>
  /\ UNCHANGED initVars

\* -------------------------------------------------------- hashProcessData

\* The frame of a session that is not inside hashProcessData.
NoFrame == [algo |-> "none", data |-> DataPtr(0), length |-> 0, hLen |-> 0, i |-> 0,
            ret |-> "none"]

NoCall == [h |-> <<>>, data |-> DataPtr(0), length |-> 0, ops |-> <<>>]

\* The byte at ptr + k, as session s reads it when its context is c.
DerefIn(s, c, ptr, k) ==
  IF ptr.src = "data" THEN StreamByte(sid[s], ptr.off + k)
  ELSE c.buffer[ptr.off + k + 1]

Deref(s, ptr, k) == DerefIn(s, context[s], ptr, k)

\* Mutant of UnalignedRead: the word is read with its bytes in reverse order.
UnalignedReadSwapped(s, ptr, k) == [b \in 1..4 |-> Deref(s, ptr, k + 4 - b)]

\* __UNALIGNED_UINT32_READ(ptr + k): the four bytes at ptr + k.
UnalignedRead(s, ptr, k) == [b \in 1..4 |-> Deref(s, ptr, k + b - 1)]

\* The call hashProcessData(sel, ptr, len, context->h, hl) by session s, whose
\* context is c at the call, returning to ret.
HpCall(s, c, sel, ptr, len, hl, ret) ==
  /\ hp' = [hp EXCEPT ![s] = [algo |-> sel, data |-> ptr, length |-> len, hLen |-> hl,
                              i |-> 0, ret |-> ret]]
  /\ hIn' = [hIn EXCEPT ![s] = [h |-> c.h, data |-> ptr, length |-> len, ops |-> <<>>]]
  /\ pc' = [pc EXCEPT ![s] = "acquire"]

\* Mutant of HpAcquire: the mutex is taken without waiting for it to be free.
HpAcquireNoWait(s) ==
  /\ pc[s] = "acquire"
  /\ mutex' = s
  /\ pc' = [pc EXCEPT ![s] = "select"]
  /\ UNCHANGED <<clockEnabled, HASH, algo, sid, context, data, length, n, hp,
                 stage, calls, sumLen, fed, hIn, digestLen, invoked>>
  /\ UNCHANGED initVars

\* osAcquireMutex(&apm32f4xxCryptoMutex): blocks while the mutex is held.
HpAcquire(s) ==
  /\ pc[s] = "acquire"
  /\ mutex = 0
  /\ mutex' = s
  /\ pc' = [pc EXCEPT ![s] = "select"]
  /\ UNCHANGED <<clockEnabled, HASH, algo, sid, context, data, length, n, hp,
                 stage, calls, sumLen, fed, hIn,
                 digestLen, invoked>>
  /\ UNCHANGED initVars

\* HASH->CTRL = HASH_CTRL_DTYPE_8B | algo
HpSelect(s) ==
  /\ pc[s] = "select"
  /\ HASH' = [HASH EXCEPT !.ALGSEL = hp[s].algo]
  /\ hIn' = [hIn EXCEPT ![s].ops = @ \o <<"select">>]
  /\ pc' = [pc EXCEPT ![s] = "initcal"]
  /\ UNCHANGED <<clockEnabled, mutex, algo, sid, context, data, length, n, hp,
                 stage, calls, sumLen, fed, digestLen, invoked>>
  /\ UNCHANGED initVars

\* HASH->CTRL |= HASH_CTRL_INITCAL: the input FIFO is reset and a new digest
\* computation starts; the context swap registers keep what they hold.
HpInitCal(s) ==
  /\ pc[s] = "initcal"
  /\ HASH' = [HASH EXCEPT !.FIFO = <<>>, !.FRESH = TRUE, !.BUSY = FALSE, !.BLK = <<>>]
  /\ hIn' = [hIn EXCEPT ![s].ops = @ \o <<"initcal">>]
  /\ pc' = [pc EXCEPT ![s] = "restore"]
  /\ UNCHANGED <<clockEnabled, mutex, algo, sid, context, data, length, n, hp,
                 stage, calls, sumLen, fed, digestLen, invoked>>
  /\ UNCHANGED initVars

\* Mutant of Restored: only the current-value bank is written.
RestoredCurOnly(H, h, hl) ==
  [H EXCEPT !.CTSWAP = [j \in DOMAIN @ |->
     IF j >= CurBank /\ j < CurBank + hl THEN h[j - CurBank + 1] ELSE @[j]]]

\* The loop that restores the initial hash value, for(i = 0; i < hLen; i++):
\* HASH->CTSWAP[6 + i] = h[i]; HASH->CTSWAP[14 + i] = h[i]
Restored(H, h, hl) ==
  [H EXCEPT !.CTSWAP = [j \in DOMAIN @ |->
     IF j >= SeedBank /\ j < SeedBank + hl THEN h[j - SeedBank + 1]
     ELSE IF j >= CurBank /\ j < CurBank + hl THEN h[j - CurBank + 1]
     ELSE @[j]]]

HpRestore(s) ==
  /\ pc[s] = "restore"
  /\ HASH' = Restored(HASH, context[s].h, hp[s].hLen)
  /\ hp' = [hp EXCEPT ![s].i = hp[s].hLen]
  /\ hIn' = [hIn EXCEPT ![s].ops = @ \o <<"restore">>]
  /\ pc' = [pc EXCEPT ![s] = "blocks"]
  /\ UNCHANGED <<clockEnabled, mutex, algo, sid, context, data, length, n,
                 stage, calls, sumLen, fed, digestLen, invoked>>
  /\ UNCHANGED initVars

\* while(length >= 64): HASH->INDATA = first word of the block
HpFirstWord(s) ==
  /\ pc[s] = "blocks"
  /\ hp[s].length >= BlockSize
  /\ HASH' = WriteINDATA(HASH, UnalignedRead(s, hp[s].data, 0))
  /\ fed' = [fed EXCEPT ![s] = @ \o UnalignedRead(s, hp[s].data, 0)]
  /\ hIn' = [hIn EXCEPT ![s].ops = @ \o <<"first">>]
  /\ pc' = [pc EXCEPT ![s] = "rest"]
  /\ UNCHANGED <<clockEnabled, mutex, algo, sid, context, data, length, n, hp,
                 stage, calls, sumLen, digestLen, invoked>>
  /\ UNCHANGED initVars

\* Mutant of RestWords: the words are read from data + 0 .. data + 56.
RestWordsShifted(s, ptr) == [w \in 1..(BlockWords - 1) |-> UnalignedRead(s, ptr, 4 * (w - 1))]

\* The words at data + 4 .. data + 60 of the block.
RestWords(s, ptr) == [w \in 1..(BlockWords - 1) |-> UnalignedRead(s, ptr, 4 * w)]

\* Mutant of HpRest: the test of the busy-wait is inverted.
HpRestWaitBusy(s) ==
  /\ pc[s] = "rest"
  /\ HASH.BUSY
  /\ HASH' = WriteWords(HASH, RestWords(s, hp[s].data))
  /\ fed' = [fed EXCEPT ![s] = @ \o WordsToBytes(RestWords(s, hp[s].data))]
  /\ hp' = [hp EXCEPT ![s].data.off = @ + BlockSize, ![s].length = @ - BlockSize]
  /\ hIn' = [hIn EXCEPT ![s].ops = @ \o <<"wait", "rest">>]
  /\ pc' = [pc EXCEPT ![s] = "blocks"]
  /\ UNCHANGED <<clockEnabled, mutex, algo, sid, context, data, length, n,
                 stage, calls, sumLen, digestLen, invoked>>
  /\ UNCHANGED initVars

\* while((HASH->STS & HASH_STS_BUSY) != 0) { }, then write the rest of the
\* block; data += 64; length -= 64
HpRest(s) ==
  /\ pc[s] = "rest"
  /\ ~HASH.BUSY
  /\ HASH' = WriteWords(HASH, RestWords(s, hp[s].data))
  /\ fed' = [fed EXCEPT ![s] = @ \o WordsToBytes(RestWords(s, hp[s].data))]
  /\ hp' = [hp EXCEPT ![s].data.off = @ + BlockSize, ![s].length = @ - BlockSize]
  /\ hIn' = [hIn EXCEPT ![s].ops = @ \o <<"wait", "rest">>]
  /\ pc' = [pc EXCEPT ![s] = "blocks"]
  /\ UNCHANGED <<clockEnabled, mutex, algo, sid, context, data, length, n,
                 stage, calls, sumLen, digestLen, invoked>>
  /\ UNCHANGED initVars

\* Mutant of HpFlush: the zero word is written twice.
HpFlushTwice(s) ==
  /\ pc[s] = "blocks"
  /\ hp[s].length < BlockSize
  /\ HASH' = WriteINDATA(WriteINDATA(HASH, ZeroWord), ZeroWord)
  /\ hIn' = [hIn EXCEPT ![s].ops = @ \o <<"zero", "zero">>]
  /\ pc' = [pc EXCEPT ![s] = "save"]
  /\ UNCHANGED <<clockEnabled, mutex, algo, sid, context, data, length, n, hp,
                 stage, calls, sumLen, fed, digestLen, invoked>>
  /\ UNCHANGED initVars

\* After the loop: HASH->INDATA = 0
HpFlush(s) ==
  /\ pc[s] = "blocks"
  /\ hp[s].length < BlockSize
  /\ HASH' = WriteINDATA(HASH, ZeroWord)
  /\ hIn' = [hIn EXCEPT ![s].ops = @ \o <<"zero">>]
  /\ pc' = [pc EXCEPT ![s] = "save"]
  /\ UNCHANGED <<clockEnabled, mutex, algo, sid, context, data, length, n, hp,
                 stage, calls, sumLen, fed, digestLen, invoked>>
  /\ UNCHANGED initVars

\* Mutant of SavedH: the hash value is read from the initial-value bank.
SavedHSeed(H, h, hl) == [i \in 1..Len(h) |-> IF i <= hl THEN H.CTSWAP[SeedBank + i - 1] ELSE h[i]]

\* The hash value after the loop that saves it, for(i = 0; i < hLen; i++):
\* h[i] = HASH->CTSWAP[14 + i]
SavedH(H, h, hl) == [i \in 1..Len(h) |-> IF i <= hl THEN H.CTSWAP[CurBank + i - 1] ELSE h[i]]

\* Mutant of HpSave: saving the hash value also empties the buffer.
HpSaveClears(s) ==
  /\ pc[s] = "save"
  /\ ~HASH.BUSY
  /\ context' = [context EXCEPT ![s].h = SavedH(HASH, @, hp[s].hLen), ![s].size = 0]
  /\ hIn' = [hIn EXCEPT ![s].ops = @ \o <<"wait", "save">>]
  /\ pc' = [pc EXCEPT ![s] = "release"]
  /\ UNCHANGED <<clockEnabled, mutex, HASH, algo, sid, data, length, n, hp,
                 stage, calls, sumLen, fed, digestLen, invoked>>
  /\ UNCHANGED initVars

\* while((HASH->STS & HASH_STS_BUSY) != 0) { }, then save the intermediate
\* hash value.
HpSave(s) ==
  /\ pc[s] = "save"
  /\ ~HASH.BUSY
  /\ context' = [context EXCEPT ![s].h = SavedH(HASH, @, hp[s].hLen)]
  /\ hIn' = [hIn EXCEPT ![s].ops = @ \o <<"wait", "save">>]
  /\ pc' = [pc EXCEPT ![s] = "release"]
  /\ UNCHANGED <<clockEnabled, mutex, HASH, algo, sid, data, length, n, hp,
                 stage, calls, sumLen, fed, digestLen, invoked>>
  /\ UNCHANGED initVars

\* Mutant of HpRelease: the function returns without releasing the mutex.
HpReleaseKeep(s) ==
  /\ pc[s] = "release"
  /\ mutex' = mutex
  /\ pc' = [pc EXCEPT ![s] = hp[s].ret]
  /\ hp' = [hp EXCEPT ![s] = NoFrame]
  /\ hIn' = [hIn EXCEPT ![s] = NoCall]
  /\ UNCHANGED <<clockEnabled, HASH, algo, sid, context, data, length, n,
                 stage, calls, sumLen, fed, digestLen, invoked>>
  /\ UNCHANGED initVars

\* osReleaseMutex(&apm32f4xxCryptoMutex), and the return to the caller.
HpRelease(s) ==
  /\ pc[s] = "release"
  /\ mutex' = 0
  /\ pc' = [pc EXCEPT ![s] = hp[s].ret]
  /\ hp' = [hp EXCEPT ![s] = NoFrame]
  /\ hIn' = [hIn EXCEPT ![s] = NoCall]
  /\ UNCHANGED <<clockEnabled, HASH, algo, sid, context, data, length, n,
                 stage, calls, sumLen, fed,
                 digestLen, invoked>>
  /\ UNCHANGED initVars

\* ---------------------------------------------------- hashInit

\* hashInit: RCM_EnableAHB2PeriphClock(RCM_AHB2_PERIPH_HASH); return NO_ERROR
hashInit ==
  /\ ~clockEnabled
  /\ clockEnabled' = TRUE
  /\ UNCHANGED <<mutex, HASH, algo, sid, context, pc, data, length, n, hp,
                 stage, calls, sumLen, fed, hIn,
                 digestLen, invoked>>
  /\ UNCHANGED initVars

\* ---------------------------------------------------- md5Update / sha1Update

\* Mutant of DirectBranch: the test of context->size is dropped.
DirectBranchAnySize(c, len) == len >= BlockSize

\* if(context->size == 0 && length >= 64)
DirectBranch(c, len) == c.size = 0 /\ len >= BlockSize

\* Mutant of DirectLen: the whole remaining length is passed to the engine.
DirectLenAll(len) == len

\* n = length - (length % 64)
DirectLen(len) == len - (len % BlockSize)

\* n = MIN(length, 64 - context->size)
BufferLen(len, size) == MIN(len, BlockSize - size)

\* Mutant of Memcpy: the copy goes to the start of the buffer instead of
\* context->buffer + context->size.
MemcpyAtStart(s, buf, size, from, cnt) ==
  [k \in 1..BlockSize |-> IF k <= cnt THEN StreamByte(sid[s], from + (k - 1)) ELSE buf[k]]

\* osMemcpy(context->buffer + context->size, data, n)
Memcpy(s, buf, size, from, cnt) ==
  [k \in 1..BlockSize |->
     IF k > size /\ k <= size + cnt THEN StreamByte(sid[s], from + (k - size - 1))
     ELSE buf[k]]

\* The context after the copy: context->size += n; context->totalSize += n
Buffered(s, c, from, cnt) ==
  [c EXCEPT !.buffer = Memcpy(s, @, c.size, from, cnt),
            !.size = @ + cnt,
            !.totalSize = @ + cnt]

RECURSIVE UpdateLoop(_, _, _, _, _)

\* Mutant of UpdateLoop: an update of length 0 flushes the bytes pending in
\* the buffer to the engine.
UpdateLoopFlushEmpty(s, c, d, len, nn) ==
  IF len = 0 /\ c.size > 0
    THEN [c |-> c, data |-> d, length |-> len, n |-> nn, at |-> "flush"]
  ELSE IF ~(len > 0)
    THEN [c |-> c, data |-> d, length |-> len, n |-> nn, at |-> "return"]
  ELSE IF c.size = 0 /\ len >= BlockSize
    THEN [c |-> c, data |-> d, length |-> len, n |-> len - (len % BlockSize),
          at |-> "direct"]
  ELSE LET cnt == IF len < BlockSize - c.size THEN len ELSE BlockSize - c.size
           c2  == [c EXCEPT !.buffer = [k \in 1..BlockSize |->
                                          IF k > c.size /\ k <= c.size + cnt
                                            THEN StreamByte(sid[s], d + (k - c.size - 1))
                                            ELSE @[k]],
                            !.size = @ + cnt, !.totalSize = @ + cnt]
       IN  IF c2.size = BlockSize \/ len - cnt = 0
             THEN [c |-> c2, data |-> d + cnt, length |-> len - cnt, n |-> cnt,
                   at |-> IF c2.size = BlockSize THEN "flush" ELSE "return"]
             ELSE UpdateLoop(s, c2, d + cnt, len - cnt, cnt)

\* The loop while(length > 0) of md5Update / sha1Update, run from its head with
\* context c, data pointer d, remaining length len and local n = nn, up to the
\* point where the function returns or calls hashProcessData:
\*   "return": the loop condition is false;
\*   "direct": the direct branch calls hashProcessData(algo, data, n, ...);
\*   "flush":  the buffered branch has filled the buffer and calls
\*             hashProcessData(algo, context->buffer, context->size, ...).
UpdateLoop(s, c, d, len, nn) ==
  IF ~(len > 0)
    THEN [c |-> c, data |-> d, length |-> len, n |-> nn, at |-> "return"]
  ELSE IF DirectBranch(c, len)
    THEN [c |-> c, data |-> d, length |-> len, n |-> DirectLen(len), at |-> "direct"]
  ELSE LET cnt == BufferLen(len, c.size)
           c2  == Buffered(s, c, d, cnt)
       IN  IF c2.size = BlockSize
             THEN [c |-> c2, data |-> d + cnt, length |-> len - cnt, n |-> cnt,
                   at |-> "flush"]
             ELSE UpdateLoop(s, c2, d + cnt, len - cnt, cnt)

\* The record of a call of hashProcessData with the arguments ptr and len.
Invocation(kind, ptr, len) == [kind |-> kind, data |-> ptr, length |-> len]

\* Session s reaches frame f of md5Update: it returns, or calls hashProcessData;
\* inv is the history of the call of md5Update so far.
UpdateResume(s, f, inv) ==
  /\ invoked' = [invoked EXCEPT ![s] =
                   CASE f.at = "return" -> inv
                     [] f.at = "direct" ->
                          [inv EXCEPT !.runs = Append(@, Invocation("direct", DataPtr(f.data), f.n))]
                     [] f.at = "flush"  ->
                          [inv EXCEPT !.runs = Append(@, Invocation("flush", BufferPtr(0), f.c.size))]]
  /\ context' = [context EXCEPT ![s] = f.c]
  /\ data' = [data EXCEPT ![s] = IF f.at = "return" THEN 0 ELSE f.data]
  /\ length' = [length EXCEPT ![s] = f.length]
  /\ n' = [n EXCEPT ![s] = IF f.at = "return" THEN 0 ELSE f.n]
  /\ CASE f.at = "return" -> /\ pc' = [pc EXCEPT ![s] = "idle"]
                             /\ UNCHANGED <<hp, hIn>>
       [] f.at = "direct" -> HpCall(s, f.c, AlgSel(algo[s]), DataPtr(f.data), f.n,
                                    HLen(algo[s]), "direct")
       [] f.at = "flush"  -> HpCall(s, f.c, AlgSel(algo[s]), BufferPtr(0), f.c.size,
                                    HLen(algo[s]), "flush")

\* A caller enters md5Update / sha1Update with the next len bytes of its
\* stream; the function runs up to its return or its first hashProcessData.
UpdateCall(s, len) ==
  /\ pc[s] = "idle"
  /\ clockEnabled
  /\ stage[s] # "finalizing"
  /\ Len(calls[s]) < CallsAllowed(s)
  /\ sumLen[s] + len <= MaxTotal
  /\ calls' = [calls EXCEPT ![s] = Append(@, len)]
  /\ sumLen' = [sumLen EXCEPT ![s] = @ + len]
  /\ UpdateResume(s, UpdateLoop(s, context[s], sumLen[s], len, 0),
                  [size |-> context[s].size, length |-> len, runs |-> <<>>])
  /\ UNCHANGED <<clockEnabled, mutex, HASH, algo, sid, stage, fed,
                 digestLen>>
  /\ UNCHANGED initVars

\* Mutant of DirectDone: the direct branch does not count its bytes.
DirectDoneNoCount(c, nn) == c

\* The context after the direct call: context->totalSize += n
DirectDone(c, nn) == [c EXCEPT !.totalSize = @ + nn]

\* The direct branch after hashProcessData returned: context->totalSize += n;
\* data += n; length -= n; then the loop goes on.
UpdateDirectDone(s) ==
  /\ pc[s] = "direct"
  /\ UpdateResume(s, UpdateLoop(s, DirectDone(context[s], n[s]), data[s] + n[s],
                                length[s] - n[s], n[s]), invoked[s])
  /\ UNCHANGED <<clockEnabled, mutex, HASH, algo, sid, stage, calls, sumLen, fed,
                 digestLen>>
  /\ UNCHANGED initVars

\* Mutant of FlushDone: the buffer is not emptied after the flush.
FlushDoneKeep(c) == c

\* The context after the flush: context->size = 0
FlushDone(c) == [c EXCEPT !.size = 0]

\* The buffered branch after hashProcessData returned: context->size = 0; then
\* the loop goes on.
UpdateFlushDone(s) ==
  /\ pc[s] = "flush"
  /\ UpdateResume(s, UpdateLoop(s, FlushDone(context[s]), data[s], length[s], n[s]),
                  invoked[s])
  /\ UNCHANGED <<clockEnabled, mutex, HASH, algo, sid, stage, calls, sumLen, fed,
                 digestLen>>
  /\ UNCHANGED initVars

\* ------------------------------------------- md5ProcessBlock / sha1ProcessBlock

\* Mutant of ProcessBlock: the length passed is context->size instead of 64.
ProcessBlockPending(s, c, ret) ==
  /\ HpCall(s, c, AlgSel(algo[s]), BufferPtr(0), c.size, HLen(algo[s]), ret)
  /\ invoked' = [invoked EXCEPT ![s] =
                   [size |-> c.size, length |-> 0,
                    runs |-> <<Invocation("block", BufferPtr(0), c.size)>>]]

\* hashProcessData(algo, context->buffer, 64, context->h, DIGEST_SIZE / 4)
ProcessBlock(s, c, ret) ==
  /\ HpCall(s, c, AlgSel(algo[s]), BufferPtr(0), BlockSize, HLen(algo[s]), ret)
  /\ invoked' = [invoked EXCEPT ![s] =
                   [size |-> c.size, length |-> 0,
                    runs |-> <<Invocation("block", BufferPtr(0), BlockSize)>>]]

\* ------------------------------------------------------------- the finalizer

\* First byte of the padding.
PadByte == 128

\* Number of bytes of the length field that ends the last block.
LenFieldSize == 8

\* The length field: the message length in bits, little-endian for MD5 and
\* big-endian for SHA-1.
LenField(a, total) ==
  LET bits == 8 * total
      le   == [k \in 1..LenFieldSize |->
                 IF k = 1 THEN bits % 256
                 ELSE IF k = 2 THEN (bits \div 256) % 256
                 ELSE IF k = 3 THEN (bits \div 65536) % 256 ELSE 0]
  IN  IF a = "MD5" THEN le ELSE [k \in 1..LenFieldSize |-> le[LenFieldSize + 1 - k]]

\* The trailing partial block, padded; it ends with the length field when
\* the field fits.
PaddedFirst(a, c) ==
  [k \in 1..BlockSize |->
     IF k <= c.size THEN c.buffer[k]
     ELSE IF k = c.size + 1 THEN PadByte
     ELSE IF c.size < BlockSize - LenFieldSize /\ k > BlockSize - LenFieldSize
       THEN LenField(a, c.totalSize)[k - (BlockSize - LenFieldSize)]
     ELSE 0]

\* The second final block: zeros and the length field.
PaddedSecond(a, c) ==
  [k \in 1..BlockSize |->
     IF k > BlockSize - LenFieldSize
       THEN LenField(a, c.totalSize)[k - (BlockSize - LenFieldSize)]
     ELSE 0]

\* finalize: pad the trailing partial block and process it.
FinalizeCall(s) ==
  /\ pc[s] = "idle"
  /\ clockEnabled
  /\ stage[s] = "open"
  /\ stage' = [stage EXCEPT ![s] = "finalizing"]
  /\ digestLen' = [digestLen EXCEPT ![s] = sumLen[s]]
  /\ LET c == [context[s] EXCEPT !.buffer = PaddedFirst(algo[s], context[s])]
     IN  /\ context' = [context EXCEPT ![s] = c]
         /\ ProcessBlock(s, c, IF c.size < BlockSize - LenFieldSize
                                 THEN "finaldone" ELSE "final2")
  /\ UNCHANGED <<clockEnabled, mutex, HASH, algo, sid, data, length, n,
                 calls, sumLen, fed>>
  /\ UNCHANGED initVars

\* finalize: the length field did not fit, a second block is processed.
FinalizeSecond(s) ==
  /\ pc[s] = "final2"
  /\ LET c == [context[s] EXCEPT !.buffer = PaddedSecond(algo[s], context[s])]
     IN  /\ context' = [context EXCEPT ![s] = c]
         /\ ProcessBlock(s, c, "finaldone")
  /\ UNCHANGED <<clockEnabled, mutex, HASH, algo, sid, data, length, n,
                 stage, calls, sumLen, fed,
                 digestLen>>
  /\ UNCHANGED initVars

\* finalize returns: context->h is the digest and the session is finalized.
FinalizeDone(s) ==
  /\ pc[s] = "finaldone"
  /\ stage' = [stage EXCEPT ![s] = "finalized"]
  /\ pc' = [pc EXCEPT ![s] = "idle"]
  /\ UNCHANGED <<clockEnabled, mutex, HASH, algo, sid, context, data, length, n, hp,
                 calls, sumLen, fed, hIn,
                 digestLen, invoked>>
  /\ UNCHANGED initVars

\* ------------------------------------------------------- msp432e4CryptoInit

\* A caller enters msp432e4CryptoInit: error = NO_ERROR
InitCall ==
  /\ initPc = "idle"
  /\ initCalls < MaxInitCalls
  /\ initCalls' = initCalls + 1
  /\ error' = "NO_ERROR"
  /\ initOps' = {}
  /\ mutexOk' = FALSE
  /\ initPc' = "create"
  /\ UNCHANGED <<initRet, msp432e4CryptoMutex, ccm>>
  /\ UNCHANGED hashVars

\* Mutant of CreateStatus: the test of osCreateMutex's result is inverted.
CreateStatusInverted(ok, err) == IF ok THEN "ERROR_OUT_OF_RESOURCES" ELSE err

\* The status after osCreateMutex returned ok.
CreateStatus(ok, err) == IF ~ok THEN "ERROR_OUT_OF_RESOURCES" ELSE err

\* if(!osCreateMutex(&msp432e4CryptoMutex)) error = ERROR_OUT_OF_RESOURCES
InitCreateMutex(ok) ==
  /\ initPc = "create"
  /\ mutexOk' = ok
  /\ msp432e4CryptoMutex' = (msp432e4CryptoMutex \/ ok)
  /\ error' = CreateStatus(ok, error)
  /\ initPc' = "check"
  /\ UNCHANGED <<initRet, ccm, initCalls, initOps>>
  /\ UNCHANGED hashVars

\* if(!error)
InitCheck ==
  /\ initPc = "check"
  /\ initPc' = IF error = "NO_ERROR" THEN "enable" ELSE "return"
  /\ UNCHANGED <<error, initRet, mutexOk, msp432e4CryptoMutex, ccm, initCalls, initOps>>
  /\ UNCHANGED hashVars

\* SysCtlPeripheralEnable(SYSCTL_PERIPH_CCM0)
InitEnable ==
  /\ initPc = "enable"
  /\ ccm' = [ccm EXCEPT !.enabled = TRUE]
  /\ initOps' = initOps \cup {"enable"}
  /\ initPc' = "reset"
  /\ UNCHANGED <<error, initRet, mutexOk, msp432e4CryptoMutex, initCalls>>
  /\ UNCHANGED hashVars

\* SysCtlPeripheralReset(SYSCTL_PERIPH_CCM0): the peripheral is ready again
\* after some polls.
InitReset(d) ==
  /\ initPc = "reset"
  /\ ccm' = [ccm EXCEPT !.resets = @ + 1, !.polls = d]
  /\ initOps' = initOps \cup {"reset"}
  /\ initPc' = "wait"
  /\ UNCHANGED <<error, initRet, mutexOk, msp432e4CryptoMutex, initCalls>>
  /\ UNCHANGED hashVars

\* SysCtlPeripheralReady(SYSCTL_PERIPH_CCM0)
PeripheralReady(p) == p.enabled /\ p.polls = 0

\* while(!SysCtlPeripheralReady(SYSCTL_PERIPH_CCM0)) { }
InitWait ==
  /\ initPc = "wait"
  /\ initOps' = initOps \cup {"wait"}
  /\ IF PeripheralReady(ccm)
       THEN /\ initPc' = "return"
            /\ ccm' = ccm
       ELSE /\ initPc' = "wait"
            /\ ccm' = [ccm EXCEPT !.polls = @ - 1]
  /\ UNCHANGED <<error, initRet, mutexOk, msp432e4CryptoMutex, initCalls>>
  /\ UNCHANGED hashVars

\* return error
InitReturn ==
  /\ initPc = "return"
  /\ initRet' = error
  /\ initPc' = "idle"
  /\ UNCHANGED <<error, mutexOk, msp432e4CryptoMutex, ccm, initCalls, initOps>>
  /\ UNCHANGED hashVars

\* ------------------------------------------------------------ specifications

NoContext(a) ==
  [h |-> InitialH(a), buffer |-> [k \in 1..BlockSize |-> Uninit], size |-> 0,
   totalSize |-> 0]

Init ==
  /\ clockEnabled = FALSE
  /\ mutex = 0
  /\ HASH = [ALGSEL |-> "none", FIFO |-> <<>>, BLK |-> <<>>, BUSY |-> FALSE,
             FRESH |-> FALSE, CTSWAP |-> [j \in SeedBank..(CurBank + 4) |-> 0]]
  /\ \E cfg \in Configs :
       /\ algo = [s \in Sessions |-> cfg.algo[s]]
       /\ sid = [s \in Sessions |-> cfg.sid[s]]
  /\ context = [s \in Sessions |-> NoContext(algo[s])]
  /\ pc = [s \in Sessions |-> "idle"]
  /\ data = [s \in Sessions |-> 0]
  /\ length = [s \in Sessions |-> 0]
  /\ n = [s \in Sessions |-> 0]
  /\ hp = [s \in Sessions |-> NoFrame]
  /\ stage = [s \in Sessions |-> "open"]
  /\ calls = [s \in Sessions |-> <<>>]
  /\ sumLen = [s \in Sessions |-> 0]
  /\ fed = [s \in Sessions |-> <<>>]
  /\ digestLen = [s \in Sessions |-> -1]
  /\ hIn = [s \in Sessions |-> NoCall]
  /\ invoked = [s \in Sessions |-> [size |-> 0, length |-> 0, runs |-> <<>>]]
  /\ initPc = "idle"
  /\ error = "NO_ERROR"
  /\ initRet = "none"
  /\ mutexOk = FALSE
  /\ msp432e4CryptoMutex = FALSE
  /\ ccm = [enabled |-> FALSE, resets |-> 0, polls |-> 0]
  /\ initCalls = 0
  /\ initOps = {}

\* The hash driver: sessions that update and finalize, and the engine.
Next ==
  \/ hashInit
  \/ EngineDone
  \/ \E s \in Sessions :
       \/ \E len \in LensAllowed(s) : UpdateCall(s, len)
       \/ UpdateDirectDone(s)
       \/ UpdateFlushDone(s)
       \/ FinalizeCall(s)
       \/ FinalizeSecond(s)
       \/ FinalizeDone(s)
       \/ HpAcquire(s)
       \/ HpSelect(s)
       \/ HpInitCal(s)
       \/ HpRestore(s)
       \/ HpFirstWord(s)
       \/ HpRest(s)
       \/ HpFlush(s)
       \/ HpSave(s)
       \/ HpRelease(s)

Spec == Init /\ [][Next]_vars

\* The steps session s takes on its own once it is inside update or
\* hashProcessData (all but the acquisition of the mutex).
SessionStep(s) ==
  \/ UpdateDirectDone(s)
  \/ UpdateFlushDone(s)
  \/ HpSelect(s)
  \/ HpInitCal(s)
  \/ HpRestore(s)
  \/ HpFirstWord(s)
  \/ HpRest(s)
  \/ HpFlush(s)
  \/ HpSave(s)
  \/ HpRelease(s)

\* The scheduler runs every ready task, the engine completes every digest
\* computation it has started, and the mutex is granted to every waiter.
Fairness ==
  /\ WF_vars(EngineDone)
  /\ \A s \in Sessions : WF_vars(SessionStep(s)) /\ SF_vars(HpAcquire(s))

\* The update calls alone.
NextFair ==
  \/ hashInit
  \/ EngineDone
  \/ \E s \in Sessions :
       \/ \E len \in LensAllowed(s) : UpdateCall(s, len)
       \/ HpAcquire(s)
       \/ SessionStep(s)

SpecFair == Init /\ [][NextFair]_vars /\ Fairness

\* The accelerator initialisation.
NextInit ==
  \/ InitCall
  \/ \E ok \in BOOLEAN : InitCreateMutex(ok)
  \/ InitCheck
  \/ InitEnable
  \/ \E d \in 0..MaxReadyPolls : InitReset(d)
  \/ InitWait
  \/ InitReturn

SpecInit == Init /\ [][NextInit]_vars

\* The lengths passed to hashProcessData when it is exercised on its own: no
\* whole block, one block, and two blocks followed by a trailing byte.
RunLens == {0, 63, 64, 129}

\* A caller enters hashProcessData(algo, data, len, context->h, hLen) with the
\* next len bytes of its stream, whatever len is.
EngineCall(s, len) ==
  /\ pc[s] = "idle"
  /\ clockEnabled
  /\ Len(calls[s]) < CallsAllowed(s)
  /\ sumLen[s] + len <= MaxTotal
  /\ calls' = [calls EXCEPT ![s] = Append(@, len)]
  /\ sumLen' = [sumLen EXCEPT ![s] = @ + len]
  /\ HpCall(s, context[s], AlgSel(algo[s]), DataPtr(sumLen[s]), len, HLen(algo[s]), "raw")
  /\ invoked' = [invoked EXCEPT ![s] =
                   [size |-> context[s].size, length |-> len,
                    runs |-> <<Invocation("raw", DataPtr(sumLen[s]), len)>>]]
  /\ UNCHANGED <<clockEnabled, mutex, HASH, algo, sid, context, data, length, n,
                 stage, fed, digestLen>>
  /\ UNCHANGED initVars

\* hashProcessData has returned to the caller of EngineCall.
EngineReturn(s) ==
  /\ pc[s] = "raw"
  /\ pc' = [pc EXCEPT ![s] = "idle"]
  /\ UNCHANGED <<clockEnabled, mutex, HASH, algo, sid, context, data, length, n, hp,
                 stage, calls, sumLen, fed, digestLen, hIn, invoked>>
  /\ UNCHANGED initVars

\* hashProcessData on its own, called with any length.
NextEngine ==
  \/ hashInit
  \/ EngineDone
  \/ \E s \in Sessions :
       \/ \E len \in RunLens : EngineCall(s, len)
       \/ EngineReturn(s)
       \/ HpAcquire(s)
       \/ HpSelect(s)
       \/ HpInitCal(s)
       \/ HpRestore(s)
       \/ HpFirstWord(s)
       \/ HpRest(s)
       \/ HpFlush(s)
       \/ HpSave(s)
       \/ HpRelease(s)

SpecEngine == Init /\ [][NextEngine]_vars

\* ------------------------------------------------------------------ claims

\* The engine's contract: the state vector h advanced by the compression
\* function over each whole block of bytes, in order.
RECURSIVE RunBlocks(_, _, _)
RunBlocks(sel, h, bytes) ==
  IF Len(bytes) < BlockSize THEN h
  ELSE RunBlocks(sel, Compress(sel, h, SubSeq(bytes, 1, BlockSize)),
                 SubSeq(bytes, BlockSize + 1, Len(bytes)))

\* What a caller can observe of the accumulator of session s.
Observable(s) ==
  [h |-> context[s].h, size |-> context[s].size, totalSize |-> context[s].totalSize,
   buffered |-> SubSeq(context[s].buffer, 1, context[s].size)]

\* Session s is between the acquisition and the release of the mutex.
HoldPcs == {"select", "initcal", "restore", "blocks", "rest", "save", "release"}

\* Session s accesses the registers of the HASH peripheral.
EnginePcs == HoldPcs \ {"release"}

\* C1: chunk-size independence.  Two sessions of the same algorithm that have
\* passed the same byte sequence to update, one in a single call and the other
\* in any partition, have the same state words, buffered bytes, size and
\* totalSize once their update calls have returned, and the same digest once
\* finalized.
C1_ChunkingIndependence ==
  \A s, t \in Sessions :
    (s # t /\ algo[s] = algo[t] /\ sid[s] = sid[t] /\ pc[s] = "idle" /\ pc[t] = "idle"
       /\ sumLen[s] = sumLen[t])
    => /\ (stage[s] = "open" /\ stage[t] = "open") => Observable(s) = Observable(t)
       /\ (stage[s] = "finalized" /\ stage[t] = "finalized"
             /\ digestLen[s] = sumLen[s] /\ digestLen[t] = sumLen[t])
            => context[s].h = context[t].h

C1_Witness ==
  /\ algo[1] = "SHA1" /\ algo[2] = "SHA1" /\ sid[1] = sid[2]
  /\ pc[1] = "idle" /\ pc[2] = "idle"
  /\ stage[1] = "finalized" /\ stage[2] = "finalized"
  /\ calls[1] = <<129>> /\ calls[2] = <<1, 128>>
  /\ digestLen[1] = 129 /\ digestLen[2] = 129

\* C2: exclusivity.  A session that accesses the HASH registers (from the
\* algorithm selection to the read-back of the state) holds the mutex, so at
\* most one session is inside the engine; the engine is busy only on behalf
\* of the holder.
C2_Exclusivity ==
  /\ \A s \in Sessions : pc[s] \in EnginePcs => mutex = s
  /\ Cardinality({s \in Sessions : pc[s] \in EnginePcs}) <= 1
  /\ HASH.BUSY => (mutex # 0 /\ pc[mutex] \in EnginePcs)

C2_Witness ==
  /\ pc[1] = "save" /\ HASH.BUSY /\ mutex = 1
  /\ pc[2] = "acquire"

\* C3: buffer invariant.  size is within 0..64; it is below 64 whenever update
\* has returned; it is 64 only inside the update call that filled the buffer,
\* while that call flushes the buffer to the engine.
C3_BufferInvariant ==
  \A s \in Sessions :
    /\ context[s].size >= 0 /\ context[s].size <= BlockSize
    /\ pc[s] = "idle" => context[s].size < BlockSize
    /\ context[s].size = BlockSize =>
         \/ pc[s] = "flush"
         \/ pc[s] \in HoldPcs \cup {"acquire"} /\ hp[s].ret = "flush"

C3_Witness ==
  /\ pc[2] = "idle" /\ calls[2] = <<1, 63>>
  /\ context[2].size = 0 /\ context[2].buffer[BlockSize] # Uninit

\* C4: total length.  Whenever update has returned, totalSize is the sum of
\* the lengths passed to update; totalSize never decreases.
C4_TotalLength ==
  /\ [](\A s \in Sessions : pc[s] = "idle" => context[s].totalSize = sumLen[s])
  /\ [][\A s \in Sessions : context'[s].totalSize >= context[s].totalSize]_vars

C4_Witness ==
  /\ pc[2] = "idle" /\ calls[2] = <<1, 128>>
  /\ context[2].totalSize = 129

\* C5: ordering.  Until a session is finalized, the block bytes it has written
\* to the engine are a prefix of its stream, and once update has returned they
\* are exactly the first 64 * floor(totalSize / 64) bytes of the stream.
C5_Ordering ==
  \A s \in Sessions :
    stage[s] = "open" =>
      /\ pc[s] \in {"rest", "blocks", "idle"} =>
           \A k \in 1..Len(fed[s]) : fed[s][k] = StreamByte(sid[s], k - 1)
      /\ pc[s] = "idle" =>
           Len(fed[s]) = BlockSize * (context[s].totalSize \div BlockSize)

C5_Witness ==
  /\ pc[2] = "idle" /\ stage[2] = "open" /\ calls[2] = <<1, 128>>
  /\ Len(fed[2]) = 128
  /\ pc[1] = "blocks" /\ Len(fed[1]) = 64

\* C6: session isolation.  When an invocation of the engine is complete, the
\* state it leaves in the context is a function of the selector, the state
\* vector and the blocks passed to that invocation alone; and the state of a
\* session whose update has returned is the one its own stream determines,
\* whatever the other session did in between.
C6_Isolation ==
  \A s \in Sessions :
    /\ pc[s] = "release" =>
         context[s].h = RunBlocks(hp[s].algo, hIn[s].h,
                          [k \in 1..hIn[s].length |-> Deref(s, hIn[s].data, k - 1)])
    /\ (pc[s] = "idle" /\ stage[s] = "open") =>
         context[s].h = RunBlocks(AlgSel(algo[s]), InitialH(algo[s]),
                          StreamBytes(sid[s], 0, sumLen[s] - (sumLen[s] % BlockSize)))

C6_Witness ==
  /\ algo[1] # algo[2]
  /\ pc[2] = "release" /\ hp[2].ret = "direct" /\ calls[2] = <<1, 128>>
  /\ pc[1] = "acquire" /\ Len(fed[1]) = 128

\* C7: the mutex is held by session s exactly while s is between the
\* acquisition and the release of one hashProcessData invocation; it is not
\* held by s when hashProcessData, update or the process-block operation has
\* returned, nor while s waits to acquire it.
C7_LockDiscipline ==
  \A s \in Sessions :
    /\ mutex = s <=> pc[s] \in HoldPcs
    /\ pc[s] \in HoldPcs \cup {"acquire"} <=> hp[s] # NoFrame

C7_Witness ==
  /\ pc[2] = "idle" /\ Len(fed[2]) = 128 /\ stage[2] = "open"
  /\ mutex = 1

\* C8: an update of length 0 changes neither the context nor the engine, takes
\* no lock and returns at once.
C8_EmptyUpdate ==
  [][\A s \in Sessions :
       (calls'[s] = Append(calls[s], 0))
       => /\ context'[s] = context[s]
          /\ pc'[s] = "idle"
          /\ mutex' = mutex /\ HASH' = HASH /\ fed' = fed /\ hp' = hp]_vars

C8_Witness ==
  /\ pc[2] = "idle" /\ calls[2] = <<1, 0>>
  /\ context[2].size = 1 /\ context[2].totalSize = 1

\* C9: post-finalize lockout.  Once a session is finalized, an update call is
\* rejected: the context and the bytes written to the engine stay as they are.
C9_PostFinalizeLockout ==
  [][\A s \in Sessions :
       stage[s] = "finalized"
       => /\ context'[s] = context[s]
          /\ fed'[s] = fed[s]
          /\ pc'[s] = "idle"]_vars

\* C10: msp432e4CryptoInit returns ERROR_OUT_OF_RESOURCES exactly when the
\* mutex could not be created, and then it has not touched the peripheral;
\* otherwise it has enabled and reset the peripheral, has waited for it, finds
\* it ready and returns NO_ERROR.
C10_InitFailureReporting ==
  LET ret == IF initPc = "return" THEN error ELSE initRet
  IN  (initPc = "return" \/ (initPc = "idle" /\ initCalls > 0)) =>
        /\ ret = "ERROR_OUT_OF_RESOURCES" <=> ~mutexOk
        /\ ~mutexOk => initOps = {}
        /\ mutexOk => /\ ret = "NO_ERROR"
                      /\ initOps = {"enable", "reset", "wait"}
                      /\ PeripheralReady(ccm)

C10_Witness ==
  /\ initPc = "idle" /\ initCalls = 2
  /\ initRet = "ERROR_OUT_OF_RESOURCES"
  /\ ccm.resets = 1 /\ initOps = {}

\* The reference accumulator that never takes the direct branch: every byte
\* is copied into the buffer and each full buffer is flushed to the engine.
\* r is its state (h, buffer, size, totalSize and the block bytes fed so far);
\* it consumes len bytes of stream sd from offset from.
RECURSIVE AlwaysBufferUpdate(_, _, _, _, _)
AlwaysBufferUpdate(sel, sd, r, from, len) ==
  IF ~(len > 0) THEN r
  ELSE LET cnt  == MIN(len, BlockSize - r.size)
           buf  == [k \in 1..BlockSize |->
                      IF k > r.size /\ k <= r.size + cnt
                        THEN StreamByte(sd, from + (k - r.size - 1)) ELSE r.buffer[k]]
           full == r.size + cnt = BlockSize
           r2   == [h         |-> IF full THEN Compress(sel, r.h, buf) ELSE r.h,
                    buffer    |-> buf,
                    size      |-> IF full THEN 0 ELSE r.size + cnt,
                    totalSize |-> r.totalSize + cnt,
                    fed       |-> IF full THEN r.fed \o buf ELSE r.fed]
       IN  AlwaysBufferUpdate(sel, sd, r2, from + cnt, len - cnt)

\* The reference accumulator after the update calls of lengths cs[i..], the
\* first of them starting at offset from of the stream.
RECURSIVE AlwaysBufferCalls(_, _, _, _, _, _)
AlwaysBufferCalls(sel, sd, r, cs, i, from) ==
  IF i > Len(cs) THEN r
  ELSE AlwaysBufferCalls(sel, sd, AlwaysBufferUpdate(sel, sd, r, from, cs[i]), cs, i + 1,
                         from + cs[i])

\* The reference accumulator of session s after the calls s has made.
AlwaysBuffer(s) ==
  AlwaysBufferCalls(AlgSel(algo[s]), sid[s],
                    [h |-> InitialH(algo[s]), buffer |-> [k \in 1..BlockSize |-> Uninit],
                     size |-> 0, totalSize |-> 0, fed |-> <<>>],
                    calls[s], 1, 0)

\* C11 (as stated): after every sequence of update calls the implemented
\* accumulator and the always-buffering one have the same state words, the
\* same content of the whole 64-byte buffer (in every byte both have written),
\* the same size and totalSize, and have fed the engine the same blocks.
C11_SameWholeBuffer ==
  \A s \in Sessions :
    (pc[s] = "idle" /\ stage[s] = "open") =>
      \E r \in {AlwaysBuffer(s)} :
        /\ context[s].h = r.h
        /\ \A k \in 1..BlockSize :
             (context[s].buffer[k] # Uninit /\ r.buffer[k] # Uninit)
               => context[s].buffer[k] = r.buffer[k]
        /\ context[s].size = r.size
        /\ context[s].totalSize = r.totalSize
        /\ fed[s] = r.fed

\* C11 (amended): after every sequence of update calls the implemented
\* accumulator and the always-buffering one have the same state words, the
\* same buffered bytes (the first size bytes of the buffer), the same size and
\* totalSize, and have fed the engine the same blocks.
C11_AlwaysBuffering ==
  \A s \in Sessions :
    (pc[s] = "idle" /\ stage[s] = "open") =>
      \E r \in {AlwaysBuffer(s)} :
        /\ context[s].h = r.h
        /\ SubSeq(context[s].buffer, 1, context[s].size) = SubSeq(r.buffer, 1, r.size)
        /\ context[s].size = r.size
        /\ context[s].totalSize = r.totalSize
        /\ fed[s] = r.fed

C11_Witness ==
  /\ pc[2] = "idle" /\ stage[2] = "open" /\ calls[2] = <<1, 128>>
  /\ context[2].size = 1 /\ Len(fed[2]) = 128
  /\ context[2].buffer[BlockSize] # Uninit
  /\ context[2].buffer[BlockSize] # AlwaysBuffer(2).buffer[BlockSize]

\* C12: progress.  Every call of update eventually returns,
\* provided the engine's busy flag eventually clears and the mutex is
\* eventually granted to each waiter; hence no state is reachable in which a
\* session inside a call can never move again.  Every iteration of the update
\* loop consumes at least one byte: the direct branch a positive multiple of
\* 64 bytes no larger than the remaining length, the buffered branch n >= 1.
C12_Progress ==
  /\ \A s \in Sessions : (pc[s] # "idle") ~> (pc[s] = "idle")
  /\ [](\A s \in Sessions :
          /\ (pc[s] = "direct" \/ hp[s].ret = "direct")
               => (n[s] >= BlockSize /\ n[s] <= length[s])
          /\ (pc[s] = "flush" \/ hp[s].ret = "flush") => n[s] >= 1)

C12_Witness ==
  /\ pc[1] = "acquire" /\ mutex = 2
  /\ pc[2] = "rest" /\ HASH.BUSY /\ hp[2].ret = "direct" /\ Len(fed[2]) > BlockSize

\* C13: update postcondition.  Whenever update has returned (and the session
\* is not finalized), h is the engine applied to the first
\* floor(totalSize / 64) blocks of the stream in order, starting from the
\* initial value; size is totalSize mod 64; the first size bytes of the buffer
\* are the last size bytes of the stream; the trailing partial block is not
\* in h, nor has it been written to the engine.
C13_UpdatePostcondition ==
  \A s \in Sessions :
    (pc[s] = "idle" /\ stage[s] = "open") =>
      LET total  == context[s].totalSize
          blocks == total \div BlockSize
      IN  /\ total = sumLen[s]
          /\ context[s].h = RunBlocks(AlgSel(algo[s]), InitialH(algo[s]),
                                      StreamBytes(sid[s], 0, BlockSize * blocks))
          /\ context[s].size = total % BlockSize
          /\ \A k \in 1..context[s].size :
               context[s].buffer[k] = StreamByte(sid[s], BlockSize * blocks + k - 1)
          /\ Len(fed[s]) = BlockSize * blocks

C13_Witness ==
  /\ pc[2] = "idle" /\ stage[2] = "open" /\ calls[2] = <<63, 64>>
  /\ context[2].size = 63 /\ context[2].totalSize = 127
  /\ context[2].h # InitialH(algo[2])

\* ----------------------------------------------------------------- claim C14

\* The calls of hashProcessData an update of len bytes makes when it is entered
\* with size bytes buffered and its data starts at offset from of the stream.
ExpectedRuns(size, len, from) ==
  IF size + len < BlockSize THEN <<>>
  ELSE IF size = 0
    THEN <<Invocation("direct", DataPtr(from), BlockSize * (len \div BlockSize))>>
  ELSE <<Invocation("flush", BufferPtr(0), BlockSize)>>
       \o (IF size + len >= 2 * BlockSize
             THEN <<Invocation("direct", DataPtr(from + BlockSize - size),
                               BlockSize * ((size + len - BlockSize) \div BlockSize))>>
             ELSE <<>>)

\* The history invoked[s] is the one of a call of update.
OfUpdate(s) == \A k \in DOMAIN invoked[s].runs : invoked[s].runs[k].kind # "block"

\* C14: an update of L bytes entered with b bytes buffered makes at most two
\* calls of hashProcessData: none if b + L < 64; one direct run of
\* 64 * floor(L / 64) bytes if b = 0 and L >= 64; if b > 0 and b + L >= 64, one
\* flush of the 64 buffered bytes, followed by one direct run only when
\* b + L >= 128. A direct run is only made while the buffer is empty.
C14_MinimalEngineCalls ==
  \A s \in Sessions :
    /\ OfUpdate(s) =>
         /\ invoked[s].size < BlockSize
         /\ Len(invoked[s].runs) <= 2
         /\ pc[s] = "idle" =>
              invoked[s].runs = ExpectedRuns(invoked[s].size, invoked[s].length,
                                             sumLen[s] - invoked[s].length)
    /\ (pc[s] # "idle" /\ hp[s].ret = "direct") => context[s].size = 0

\* An update of 128 bytes entered with one byte buffered has returned after a
\* flush and a direct run.
C14_Witness ==
  /\ pc[2] = "idle"
  /\ OfUpdate(2)
  /\ invoked[2].size = 1
  /\ invoked[2].length = 2 * BlockSize
  /\ Len(invoked[2].runs) = 2
  /\ invoked[2].runs[2].kind = "direct"

\* ----------------------------------------------------------------- claim C15

\* Session s is inside hashProcessData.
InEngineCall(s) == hp[s] # NoFrame

\* C15: every call of hashProcessData made by update or by process-block is
\* passed a length that is a positive multiple of 64, the selector of the
\* session's algorithm and its number of state words (4 for MD5, 5 for SHA-1);
\* the block loop leaves no byte of the length unprocessed.
C15_EngineCallPrecondition ==
  \A s \in Sessions :
    /\ \A k \in DOMAIN invoked[s].runs :
         invoked[s].runs[k].length > 0 /\ invoked[s].runs[k].length % BlockSize = 0
    /\ InEngineCall(s) =>
         /\ hIn[s].length > 0
         /\ hIn[s].length % BlockSize = 0
         /\ hp[s].length % BlockSize = 0
         /\ hp[s].algo = (IF algo[s] = "MD5" THEN "ALGSEL_MD5" ELSE "ALGSEL_SHA1")
         /\ hp[s].hLen = (IF algo[s] = "MD5" THEN 4 ELSE 5)
         /\ hp[s].hLen = Len(context[s].h)
         /\ pc[s] \in {"save", "release"} => hp[s].length = 0

\* A SHA-1 session waits for the engine with a run of two blocks while an MD5
\* session is at the end of the run of its process-block operation.
C15_Witness ==
  /\ algo[1] = "SHA1" /\ algo[2] = "MD5"
  /\ pc[1] = "acquire" /\ hIn[1].length = 2 * BlockSize /\ hp[1].hLen = 5
  /\ pc[2] = "release" /\ hp[2].ret = "finaldone" /\ hp[2].hLen = 4

\* ----------------------------------------------------------------- claim C16

\* C16: in every call of hashProcessData the hash value passed in is written
\* to the initial-value bank and to the current-value bank, for every index
\* below hLen, after the algorithm is selected and INITCAL is set and before
\* the first data word is written; the hash value is read back from the
\* current-value bank only, once, after the last busy-wait.
C16_StateSeeding ==
  \A s \in Sessions :
    InEngineCall(s) =>
      LET ops == hIn[s].ops
      IN  /\ \A i \in DOMAIN ops :
               /\ ops[i] = "select"  <=> i = 1
               /\ ops[i] = "initcal" <=> i = 2
               /\ ops[i] = "restore" <=> i = 3
               /\ ops[i] = "save" => i = Len(ops) /\ ops[i - 1] = "wait" /\ pc[s] = "release"
          /\ (pc[s] = "blocks" /\ Len(ops) = 3) =>
               /\ HASH.ALGSEL = hp[s].algo
               /\ HASH.FRESH
               /\ HASH.FIFO = <<>>
               /\ \A i \in 0..(hp[s].hLen - 1) :
                    /\ HASH.CTSWAP[SeedBank + i] = hIn[s].h[i + 1]
                    /\ HASH.CTSWAP[CurBank + i] = hIn[s].h[i + 1]
          /\ pc[s] = "release" =>
               /\ ~HASH.BUSY
               /\ ops[Len(ops)] = "save"
               /\ \A i \in 1..hp[s].hLen : context[s].h[i] = HASH.CTSWAP[CurBank + i - 1]

\* A SHA-1 session has read back the hash value of its second call of
\* hashProcessData, which was seeded with the result of the first one.
C16_Witness ==
  /\ algo[2] = "SHA1"
  /\ pc[2] = "release"
  /\ hp[2].hLen = 5
  /\ Len(invoked[2].runs) = 2
  /\ hIn[2].h # InitialH("SHA1")
  /\ context[2].h # hIn[2].h
  /\ \A i \in 0..4 : HASH.CTSWAP[SeedBank + i] = hIn[2].h[i + 1]

\* ----------------------------------------------------------------- claim C17

\* The accesses to the peripheral of a call of hashProcessData with length len.
ExpectedOps(len) ==
  <<"select", "initcal", "restore">>
    \o [i \in 1..(3 * (len \div BlockSize)) |-> <<"first", "wait", "rest">>[((i - 1) % 3) + 1]]
    \o <<"zero", "wait", "save">>

\* C17: every call of hashProcessData writes the zero word exactly once, after
\* the 16 words of the last whole block and before the hash value is read
\* back, whatever the number of whole blocks (zero included), and waits for
\* BUSY to clear after it; of each block the first word is written, BUSY is
\* awaited, and then the other 15 words are written.
C17_FlushWrite ==
  \A s \in Sessions :
    InEngineCall(s) =>
      LET ops      == hIn[s].ops
          expected == ExpectedOps(hIn[s].length)
      IN  /\ Len(ops) <= Len(expected)
          /\ ops = SubSeq(expected, 1, Len(ops))
          /\ pc[s] = "rest" => Len(HASH.FIFO) = 1
          /\ (pc[s] = "blocks" /\ Len(ops) > 3) => Len(HASH.FIFO) = BlockWords /\ ~HASH.BUSY
          /\ pc[s] = "save" => ops[Len(ops)] = "zero" /\ HASH.FIFO = <<ZeroWord>>
          /\ pc[s] = "release" => ops = expected /\ HASH.FIFO = <<ZeroWord>> /\ ~HASH.BUSY

\* Session 1 has completed a call with no whole block and session 2 is at the
\* end of a call with two whole blocks.
C17_Witness ==
  /\ calls[1] = <<0>> /\ pc[1] = "idle"
  /\ pc[2] = "release"
  /\ hIn[2].length = 2 * BlockSize + 1
  /\ Len(hIn[2].ops) = 12

\* ----------------------------------------------------------------- claim C18

\* Session s is inside md5ProcessBlock / sha1ProcessBlock.
InProcessBlock(s) == InEngineCall(s) /\ hp[s].ret \in {"final2", "finaldone"}

\* C18: md5ProcessBlock / sha1ProcessBlock makes exactly one call of
\* hashProcessData, on the 64 bytes of context->buffer and with the mutex held
\* while the peripheral is accessed; it replaces context->h by the hash value
\* advanced over these 64 bytes and leaves context->size, context->totalSize
\* and context->buffer as they were.
C18_ProcessBlockFrame ==
  /\ [](\A s \in Sessions :
          InProcessBlock(s) =>
            /\ invoked[s].runs = <<Invocation("block", BufferPtr(0), BlockSize)>>
            /\ hIn[s].data = BufferPtr(0)
            /\ hIn[s].length = BlockSize
            /\ context[s].size = invoked[s].size
            /\ pc[s] \in HoldPcs => mutex = s
            /\ pc[s] \in {"acquire", "select", "initcal", "restore"} =>
                 context[s].h = hIn[s].h
            /\ pc[s] = "release" =>
                 /\ context[s].h = Compress(hp[s].algo, hIn[s].h, context[s].buffer)
                 /\ Len(fed[s]) >= BlockSize
                 /\ SubSeq(fed[s], Len(fed[s]) - BlockSize + 1, Len(fed[s])) = context[s].buffer)
  /\ [][\A s \in Sessions :
          InProcessBlock(s) =>
            /\ context'[s].size = context[s].size
            /\ context'[s].totalSize = context[s].totalSize
            /\ context'[s].buffer = context[s].buffer
            /\ invoked'[s] = invoked[s]]_vars

\* A session with 63 bytes buffered has run md5ProcessBlock on its padded
\* buffer: the hash value has changed and the 63 bytes are still counted.
C18_Witness ==
  /\ InProcessBlock(2)
  /\ pc[2] = "release"
  /\ hp[2].ret = "final2"
  /\ context[2].size = BlockSize - 1
  /\ context[2].totalSize = BlockSize - 1
  /\ context[2].h # hIn[2].h

====
